---- MODULE Spec2Model ----
(***************************************************************************)
(* Q3DScene / Q3DScenePrivate (src/datavisualization/engine/q3dscene.cpp). *)
(* Two scenes are modelled: "a" is the scene the application edits, "b"    *)
(* the copy a renderer keeps; Q3DScenePrivate::sync copies from one to the *)
(* other.  A QRect is the record [x, y, w, h] (x2 = x + w - 1), a QSize    *)
(* the record [w, h], a QPoint the record [x, y].                          *)
(***************************************************************************)
EXTENDS Integers, Sequences, FiniteSets, TLC

VARIABLES scene, parent, conns, objDirty, last, before, events, edited, steps, prev,
          deleted, alive, crashed, listeners, surface

vars == <<scene, parent, conns, objDirty, last, before, events, edited, steps, prev,
          deleted, alive, crashed, listeners, surface>>

----------------------------------------------------------------------------
(* Bounds of the model *)

MaxOps == 2
MaxStartupOps == 3
MaxLifetimeOps == 4
MaxListenerOps == 3
MaxSurfaceOps == 2
MaxRows == 5
MaxSample == 2
MaxDim == 5
SmallDim == 2
MaxPos == 2
MaxRatio == 2

Scenes == {"a", "b"}
OtherScene(s) == IF s = "a" THEN "b" ELSE "a"

----------------------------------------------------------------------------
(* QRect, QSize, QPoint *)

Rect(x, y, w, h) == [x |-> x, y |-> y, w |-> w, h |-> h]
Size(w, h) == [w |-> w, h |-> h]
Point(x, y) == [x |-> x, y |-> y]

Max2(m, n) == IF m >= n THEN m ELSE n
Min2(m, n) == IF m <= n THEN m ELSE n

\* QRect(): x1 = y1 = 0, x2 = y2 = -1
NullRect == Rect(0, 0, 0, 0)
\* QSize(): width = height = -1
InvalidSize == Size(-1, -1)

isNull(r) == r.w = 0 /\ r.h = 0

\* the rectangle moved into the clip rectangle before it is cut
intersected_translated(r1, r2) ==
    LET nx == Max2(r2.x, Min2(r1.x, r2.x + r2.w - r1.w))
        ny == Max2(r2.y, Min2(r1.y, r2.y + r2.h - r1.h))
    IN  IF isNull(r1) \/ isNull(r2) THEN NullRect
        ELSE Rect(nx, ny, Min2(r1.w, r2.w), Min2(r1.h, r2.h))

\* QRect::intersected, with Qt's normalisation of negative extents
intersected(r1, r2) ==
    LET a2 == r1.x + r1.w - 1
        b2 == r2.x + r2.w - 1
        l1 == IF r1.w < 0 THEN a2 ELSE r1.x
        rr1 == IF r1.w < 0 THEN r1.x ELSE a2
        l2 == IF r2.w < 0 THEN b2 ELSE r2.x
        rr2 == IF r2.w < 0 THEN r2.x ELSE b2
        c2 == r1.y + r1.h - 1
        d2 == r2.y + r2.h - 1
        t1 == IF r1.h < 0 THEN c2 ELSE r1.y
        bb1 == IF r1.h < 0 THEN r1.y ELSE c2
        t2 == IF r2.h < 0 THEN d2 ELSE r2.y
        bb2 == IF r2.h < 0 THEN r2.y ELSE d2
    IN  IF isNull(r1) \/ isNull(r2) THEN NullRect
        ELSE IF l1 > rr2 \/ l2 > rr1 THEN NullRect
        ELSE IF t1 > bb2 \/ t2 > bb1 THEN NullRect
        ELSE Rect(Max2(l1, l2), Max2(t1, t2),
                  Min2(rr1, rr2) - Max2(l1, l2) + 1,
                  Min2(bb1, bb2) - Max2(t1, t2) + 1)

\* a ratio of one half in place of 0.2
smallerViewPortRatio_half(n) ==
    IF n >= 0 THEN n \div 2 ELSE 0 - ((0 - n) \div 2)

\* int * 0.2f converted back to int: the product is truncated toward zero
smallerViewPortRatio(n) ==
    IF n >= 0 THEN (n * 2) \div 10 ELSE 0 - (((0 - n) * 2) \div 10)

\* Q3DScene::invalidSelectionPoint
invalidSelectionPoint == Point(-1, -1)

----------------------------------------------------------------------------
(* Objects a scene refers to *)

Cameras == {"camA", "camB", "cam1"}
Lights == {"lightA", "lightB", "light1"}
InitialCamera(s) == IF s = "a" THEN "camA" ELSE "camB"
InitialLight(s) == IF s = "a" THEN "lightA" ELSE "lightB"
NoObject == "null"
NoParent == "none"

\* how the process stands: running, stopped by a failed Q_ASSERT (qFatal), or
\* stopped by a memory fault
Running == "no"
Aborted == "assert"
Faulted == "fault"

\* an assertion that lets every pointer through
Q_ASSERT_unchecked(ptr) == {Running}

\* Q_ASSERT(ptr) followed by ptr->parent(): a null pointer stops the call at
\* the assertion, or, where QT_NO_DEBUG compiles the assertion away, at the
\* read through the null pointer
Q_ASSERT(ptr) == IF ptr = NoObject THEN {Aborted, Faulted} ELSE {Running}

----------------------------------------------------------------------------
(* Q3DSceneChangeBitField and the state of one Q3DScenePrivate *)

TrackerFlags == {"windowSizeChanged", "viewportChanged", "subViewportOrderChanged",
                 "primarySubViewportChanged", "secondarySubViewportChanged",
                 "selectionQueryPositionChanged", "cameraChanged", "lightChanged",
                 "slicingActivatedChanged", "devicePixelRatioChanged"}

Tracker(v) == [f \in TrackerFlags |-> v]

\* The attributes a change notification handler or the renderer can read
Attrs(sc) == [windowSize |-> sc.windowSize,
              viewport |-> sc.viewport,
              primarySubViewport |-> sc.primarySubViewport,
              secondarySubViewport |-> sc.secondarySubViewport,
              isSlicingActive |-> sc.isSlicingActive,
              isSecondarySubviewOnTop |-> sc.isSecondarySubviewOnTop,
              devicePixelRatio |-> sc.devicePixelRatio,
              selectionQueryPosition |-> sc.selectionQueryPosition]

\* A call in progress on one scene: the scene and the signals emitted so far,
\* each with the attributes a directly connected slot would read.
\* no slot connected
NoListener == [connected |-> FALSE]

Ctx(id, sc) == [id |-> id, sc |-> sc, ev |-> <<>>, on |-> NoListener]

Emit(c, sig) ==
    [c EXCEPT !.ev = Append(@, [by |-> c.id, sig |-> sig, snap |-> Attrs(c.sc)])]

Mark(c, flag) ==
    [c EXCEPT !.sc.changeTracker[flag] = TRUE, !.sc.sceneDirty = TRUE]

\* Q3DScenePrivate::Q3DScenePrivate; the tracker's own constructor is declared
\* in q3dscene_p.h: both an all-set and an all-clear construction are covered.
Q3DScenePrivate(trackerInit) ==
    [windowSize |-> InvalidSize,
     viewport |-> NullRect,
     primarySubViewport |-> NullRect,
     secondarySubViewport |-> NullRect,
     glViewport |-> NullRect,
     glPrimarySubViewport |-> NullRect,
     glSecondarySubViewport |-> NullRect,
     isSecondarySubviewOnTop |-> TRUE,
     devicePixelRatio |-> 1,
     camera |-> NoObject,
     light |-> NoObject,
     isSlicingActive |-> FALSE,
     selectionQueryPosition |-> invalidSelectionPoint,
     changeTracker |-> Tracker(trackerInit),
     sceneDirty |-> FALSE]

----------------------------------------------------------------------------
(* Derived GL rectangles *)

updateGLSubViewports(c) ==
    LET s == c.sc
        p == s.devicePixelRatio
        H == s.windowSize.h
    IN  [c EXCEPT
          !.sc.glPrimarySubViewport =
              Rect((s.primarySubViewport.x + s.viewport.x) * p,
                   (H - (s.primarySubViewport.y + s.viewport.y + s.primarySubViewport.h)) * p,
                   s.primarySubViewport.w * p,
                   s.primarySubViewport.h * p),
          !.sc.glSecondarySubViewport =
              Rect(s.secondarySubViewport.x * p,
                   (H - (s.secondarySubViewport.y + s.viewport.y + s.secondarySubViewport.h)) * p,
                   s.secondarySubViewport.w * p,
                   s.secondarySubViewport.h * p)]

----------------------------------------------------------------------------
(* Setters of Q3DScene and Q3DScenePrivate, as functions of the call context *)

\* the stored rectangle compared with the argument before it is clipped
setPrimarySubViewport_compareUnclipped(c, primarySubViewport) ==
    LET clipRect == Rect(0, 0, c.sc.viewport.w, c.sc.viewport.h)
        intersectedViewport == intersected(primarySubViewport, clipRect)
    IN  IF c.sc.primarySubViewport # primarySubViewport
        THEN LET c1 == [c EXCEPT !.sc.primarySubViewport = intersectedViewport]
                 c2 == updateGLSubViewports(c1)
                 c3 == Mark(c2, "primarySubViewportChanged")
                 c4 == Emit(c3, "primarySubViewportChanged")
             IN  Emit(c4, "needRender")
        ELSE c

setPrimarySubViewport(c, primarySubViewport) ==
    LET clipRect == Rect(0, 0, c.sc.viewport.w, c.sc.viewport.h)
        intersectedViewport == intersected(primarySubViewport, clipRect)
    IN  IF c.sc.primarySubViewport # intersectedViewport
        THEN LET c1 == [c EXCEPT !.sc.primarySubViewport = intersectedViewport]
                 c2 == updateGLSubViewports(c1)
                 c3 == Mark(c2, "primarySubViewportChanged")
                 c4 == Emit(c3, "primarySubViewportChanged")
             IN  Emit(c4, "needRender")
        ELSE c

setSecondarySubViewport(c, secondarySubViewport) ==
    LET clipRect == Rect(0, 0, c.sc.viewport.w, c.sc.viewport.h)
        intersectedViewport == intersected(secondarySubViewport, clipRect)
    IN  IF c.sc.secondarySubViewport # intersectedViewport
        THEN LET c1 == [c EXCEPT !.sc.secondarySubViewport = intersectedViewport]
                 c2 == updateGLSubViewports(c1)
                 c3 == Mark(c2, "secondarySubViewportChanged")
                 c4 == Emit(c3, "secondarySubViewportChanged")
             IN  Emit(c4, "needRender")
        ELSE c

\* A signal that the class documentation names for overriding the default
\* layout (viewportChanged, slicingActiveChanged): the slot connected to it,
\* if any, runs inside the emit and sets both subviewports itself.
Notify(c, sig) ==
    IF c.on.connected
    THEN setSecondarySubViewport(
             setPrimarySubViewport(Emit(c, sig), c.on.primary),
             c.on.secondary)
    ELSE Emit(c, sig)

\* the GL viewport updated without flagging the viewport as changed
updateGLViewport_noFlag(c) ==
    LET s == c.sc
        p == s.devicePixelRatio
        c1 == [c EXCEPT !.sc.glViewport =
                  Rect(s.viewport.x * p,
                       (s.windowSize.h - (s.viewport.y + s.viewport.h)) * p,
                       s.viewport.w * p,
                       s.viewport.h * p)]
        c3 == updateGLSubViewports(c1)
    IN  Notify(c3, "viewportChanged")

updateGLViewport(c) ==
    LET s == c.sc
        p == s.devicePixelRatio
        c1 == [c EXCEPT !.sc.glViewport =
                  Rect(s.viewport.x * p,
                       (s.windowSize.h - (s.viewport.y + s.viewport.h)) * p,
                       s.viewport.w * p,
                       s.viewport.h * p)]
        c2 == Mark(c1, "viewportChanged")
        c3 == updateGLSubViewports(c2)
    IN  Notify(c3, "viewportChanged")

setSelectionQueryPosition(c, point) ==
    IF point # c.sc.selectionQueryPosition
    THEN LET c1 == [c EXCEPT !.sc.selectionQueryPosition = point]
             c2 == Mark(c1, "selectionQueryPositionChanged")
             c3 == Emit(c2, "selectionQueryPositionChanged")
         IN  Emit(c3, "needRender")
    ELSE c

\* Q3DScene::isPointInPrimarySubView
isPointInPrimarySubView(sc, point) ==
    LET areaMinX == sc.primarySubViewport.x
        areaMaxX == sc.viewport.x + sc.primarySubViewport.x + sc.primarySubViewport.w
        areaMaxY == sc.viewport.y + sc.primarySubViewport.y + sc.primarySubViewport.h
        areaMinY == sc.viewport.y + sc.primarySubViewport.y
    IN  point.x > areaMinX /\ point.x < areaMaxX /\ point.y > areaMinY /\ point.y < areaMaxY

\* Q3DScene::isPointInSecondarySubView
isPointInSecondarySubView(sc, point) ==
    LET areaMinX == sc.secondarySubViewport.x
        areaMaxX == sc.viewport.x + sc.secondarySubViewport.x + sc.secondarySubViewport.w
        areaMaxY == sc.viewport.y + sc.secondarySubViewport.y + sc.secondarySubViewport.h
        areaMinY == sc.viewport.y + sc.secondarySubViewport.y
    IN  point.x > areaMinX /\ point.x < areaMaxX /\ point.y > areaMinY /\ point.y < areaMaxY

\* the two slicing-mode rectangles exchanged
calculateSubViewports_swapped(c) ==
    updateGLViewport(
        setSecondarySubViewport(
            setPrimarySubViewport(c, Rect(0, 0, c.sc.viewport.w, c.sc.viewport.h)),
            IF c.sc.isSlicingActive
            THEN Rect(0, 0, smallerViewPortRatio(c.sc.viewport.w),
                      smallerViewPortRatio(c.sc.viewport.h))
            ELSE Rect(0, 0, 0, 0)))

\* viewportChanged emitted before the default layout is applied
calculateSubViewports_notifyFirst(c) ==
    setSecondarySubViewport(
        setPrimarySubViewport(updateGLViewport(c),
            IF c.sc.isSlicingActive
            THEN Rect(0, 0, smallerViewPortRatio(c.sc.viewport.w),
                      smallerViewPortRatio(c.sc.viewport.h))
            ELSE Rect(0, 0, c.sc.viewport.w, c.sc.viewport.h)),
        IF c.sc.isSlicingActive
        THEN Rect(0, 0, c.sc.viewport.w, c.sc.viewport.h)
        ELSE Rect(0, 0, 0, 0))

\* The default subviewport layout
calculateSubViewports(c) ==
    updateGLViewport(
        setSecondarySubViewport(
            setPrimarySubViewport(c,
                IF c.sc.isSlicingActive
                THEN Rect(0, 0, smallerViewPortRatio(c.sc.viewport.w),
                          smallerViewPortRatio(c.sc.viewport.h))
                ELSE Rect(0, 0, c.sc.viewport.w, c.sc.viewport.h)),
            IF c.sc.isSlicingActive
            THEN Rect(0, 0, c.sc.viewport.w, c.sc.viewport.h)
            ELSE Rect(0, 0, 0, 0)))

setSlicingActive(c, isSlicing) ==
    IF c.sc.isSlicingActive # isSlicing
    THEN LET c1 == [c EXCEPT !.sc.isSlicingActive = isSlicing]
             c2 == Mark(c1, "slicingActivatedChanged")
             c3 == calculateSubViewports(c2)
             c4 == Notify(c3, "slicingActiveChanged")
         IN  Emit(c4, "needRender")
    ELSE c

setSecondarySubviewOnTop(c, isSecondaryOnTop) ==
    IF c.sc.isSecondarySubviewOnTop # isSecondaryOnTop
    THEN LET c1 == [c EXCEPT !.sc.isSecondarySubviewOnTop = isSecondaryOnTop]
             c2 == Mark(c1, "subViewportOrderChanged")
             c3 == Emit(c2, "secondarySubviewOnTopChanged")
         IN  Emit(c3, "needRender")
    ELSE c

\* the pixel ratio stored without rescaling the GL rectangles
setDevicePixelRatio_noUpdate(c, pixelRatio) ==
    IF c.sc.devicePixelRatio # pixelRatio
    THEN LET c1 == [c EXCEPT !.sc.devicePixelRatio = pixelRatio]
             c2 == Mark(c1, "devicePixelRatioChanged")
             c3 == Emit(c2, "devicePixelRatioChanged")
         IN  Emit(c3, "needRender")
    ELSE c

setDevicePixelRatio(c, pixelRatio) ==
    IF c.sc.devicePixelRatio # pixelRatio
    THEN LET c1 == [c EXCEPT !.sc.devicePixelRatio = pixelRatio]
             c2 == Mark(c1, "devicePixelRatioChanged")
             c3 == Emit(c2, "devicePixelRatioChanged")
             c4 == updateGLViewport(c3)
         IN  Emit(c4, "needRender")
    ELSE c

\* the viewport replaced without recalculating the subviewports
setViewport_noRecalculate(c, viewport) ==
    IF c.sc.viewport # viewport
    THEN LET c1 == [c EXCEPT !.sc.viewport = viewport]
             c2 == updateGLViewport(c1)
         IN  Emit(c2, "needRender")
    ELSE c

setViewport(c, viewport) ==
    IF c.sc.viewport # viewport
    THEN LET c1 == [c EXCEPT !.sc.viewport = viewport]
             c2 == calculateSubViewports(c1)
         IN  Emit(c2, "needRender")
    ELSE c

\* the viewport resized without recalculating the subviewports
setViewportSize_noRecalculate(c, width, height) ==
    IF c.sc.viewport.w # width \/ c.sc.viewport.h # height
    THEN LET c1 == [c EXCEPT !.sc.viewport.w = width, !.sc.viewport.h = height]
             c2 == updateGLViewport(c1)
         IN  Emit(c2, "needRender")
    ELSE c

setViewportSize(c, width, height) ==
    IF c.sc.viewport.w # width \/ c.sc.viewport.h # height
    THEN LET c1 == [c EXCEPT !.sc.viewport.w = width, !.sc.viewport.h = height]
             c2 == calculateSubViewports(c1)
         IN  Emit(c2, "needRender")
    ELSE c

setWindowSize(c, size) ==
    IF c.sc.windowSize # size
    THEN LET c1 == [c EXCEPT !.sc.windowSize = size]
             c2 == updateGLViewport(c1)
             c3 == Mark(c2, "windowSizeChanged")
         IN  Emit(c3, "needRender")
    ELSE c

\* The part of Q3DScene::setActiveCamera / setActiveLight that acts on the
\* scene's own fields; reparenting and connections are in the actions.
setActiveCamera(c, camera) ==
    IF camera # c.sc.camera
    THEN LET c1 == [c EXCEPT !.sc.camera = camera]
             c2 == Mark(c1, "cameraChanged")
             c3 == Emit(c2, "activeCameraChanged")
         IN  Emit(c3, "needRender")
    ELSE c

setActiveLight(c, light) ==
    IF light # c.sc.light
    THEN LET c1 == [c EXCEPT !.sc.light = light]
             c2 == Mark(c1, "lightChanged")
         IN  Emit(c2, "activeLightChanged")
    ELSE c

\* Q3DScene::Q3DScene
Q3DScene(id, trackerInit) ==
    LET c0 == Ctx(id, Q3DScenePrivate(trackerInit))
        c1 == setActiveCamera(c0, InitialCamera(id))
    IN  setActiveLight(c1, InitialLight(id)).sc

----------------------------------------------------------------------------
(* Q3DScenePrivate::sync: copies the flagged values of src to the scene of *)
(* the context o, clearing each handled flag on both.                      *)

Clear(t, flag) == [t EXCEPT ![flag] = FALSE]

\* a step that leaves the flag of the source set
SyncStep_keepSourceFlag(st, flag, applied) ==
    [src |-> st.src,
     other |-> [applied EXCEPT !.sc.changeTracker = Clear(@, flag)],
     dirtied |-> st.dirtied]

\* a step that writes the pixel ratio of the other scene to the source
SyncStep_reversedRatio(st, flag, applied) ==
    IF flag = "devicePixelRatioChanged"
    THEN [src |-> [st.src EXCEPT !.changeTracker = Clear(@, flag),
                                 !.devicePixelRatio = st.other.sc.devicePixelRatio],
          other |-> [st.other EXCEPT !.sc.changeTracker = Clear(@, flag)],
          dirtied |-> st.dirtied]
    ELSE [src |-> [st.src EXCEPT !.changeTracker = Clear(@, flag)],
          other |-> [applied EXCEPT !.sc.changeTracker = Clear(@, flag)],
          dirtied |-> st.dirtied]

\* the end of a flagged step of sync: the setter has been applied to the
\* other scene, and the flag is cleared on both
SyncStep(st, flag, applied) ==
    [src |-> [st.src EXCEPT !.changeTracker = Clear(@, flag)],
     other |-> [applied EXCEPT !.sc.changeTracker = Clear(@, flag)],
     dirtied |-> st.dirtied]

syncWindowSize(st) ==
    IF st.src.changeTracker["windowSizeChanged"]
    THEN SyncStep(st, "windowSizeChanged", setWindowSize(st.other, st.src.windowSize))
    ELSE st

syncViewport(st) ==
    IF st.src.changeTracker["viewportChanged"]
    THEN SyncStep(st, "viewportChanged", setViewport(st.other, st.src.viewport))
    ELSE st

syncSubViewportOrder(st) ==
    IF st.src.changeTracker["subViewportOrderChanged"]
    THEN SyncStep(st, "subViewportOrderChanged",
                  setSecondarySubviewOnTop(st.other, st.src.isSecondarySubviewOnTop))
    ELSE st

syncPrimarySubViewport(st) ==
    IF st.src.changeTracker["primarySubViewportChanged"]
    THEN SyncStep(st, "primarySubViewportChanged",
                  setPrimarySubViewport(st.other, st.src.primarySubViewport))
    ELSE st

syncSecondarySubViewport(st) ==
    IF st.src.changeTracker["secondarySubViewportChanged"]
    THEN SyncStep(st, "secondarySubViewportChanged",
                  setSecondarySubViewport(st.other, st.src.secondarySubViewport))
    ELSE st

syncSelectionQueryPosition(st) ==
    IF st.src.changeTracker["selectionQueryPositionChanged"]
    THEN SyncStep(st, "selectionQueryPositionChanged",
                  setSelectionQueryPosition(st.other, st.src.selectionQueryPosition))
    ELSE st

\* the camera of the source made the active camera of the other scene
syncCamera_copyCamera(st) ==
    IF st.src.changeTracker["cameraChanged"]
    THEN [SyncStep(st, "cameraChanged", setActiveCamera(st.other, st.src.camera))
            EXCEPT !.dirtied = @ \cup {st.src.camera}]
    ELSE st

\* m_camera->setDirty(true)
syncCamera(st) ==
    IF st.src.changeTracker["cameraChanged"]
    THEN [SyncStep(st, "cameraChanged", st.other)
            EXCEPT !.dirtied = @ \cup {st.src.camera}]
    ELSE st

\* m_light->setDirty(true)
syncLight(st) ==
    IF st.src.changeTracker["lightChanged"]
    THEN [SyncStep(st, "lightChanged", st.other)
            EXCEPT !.dirtied = @ \cup {st.src.light}]
    ELSE st

syncSlicingActive(st) ==
    IF st.src.changeTracker["slicingActivatedChanged"]
    THEN SyncStep(st, "slicingActivatedChanged",
                  setSlicingActive(st.other, st.src.isSlicingActive))
    ELSE st

syncDevicePixelRatio(st) ==
    IF st.src.changeTracker["devicePixelRatioChanged"]
    THEN SyncStep(st, "devicePixelRatioChanged",
                  setDevicePixelRatio(st.other, st.src.devicePixelRatio))
    ELSE st

\* the pending selection request of the source cleared once it is handed over
syncSceneDirty_clearSelection(st) ==
    [st EXCEPT !.src.sceneDirty = FALSE, !.other.sc.sceneDirty = FALSE,
               !.src.selectionQueryPosition = invalidSelectionPoint]

syncSceneDirty(st) ==
    [st EXCEPT !.src.sceneDirty = FALSE, !.other.sc.sceneDirty = FALSE]

sync(src, o) ==
    syncSceneDirty(
     syncDevicePixelRatio(
      syncSlicingActive(
       syncLight(
        syncCamera(
         syncSelectionQueryPosition(
          syncSecondarySubViewport(
           syncPrimarySubViewport(
            syncSubViewportOrder(
             syncViewport(
              syncWindowSize([src |-> src, other |-> o, dirtied |-> {}])))))))))))

----------------------------------------------------------------------------
(* Inputs of the calls *)

WindowSizeInputs == {Size(MaxDim, MaxDim), Size(MaxDim + MaxPos, MaxDim + MaxPos)}
ViewportInputs == {Rect(0, 0, MaxDim, MaxDim), Rect(MaxPos, MaxPos, SmallDim, MaxDim)}
ViewportSizeInputs == {Size(w, MaxDim) : w \in {0, SmallDim, MaxDim}}
SubViewportInputs == {Rect(1, 1, SmallDim, SmallDim),
                      Rect(-1, -1, SmallDim, MaxDim),
                      Rect(MaxDim + 1, 0, 1, 1),
                      Rect(1, 0, 0, SmallDim)}
PixelRatioInputs == 1..MaxRatio
SelectionInputs == {invalidSelectionPoint, Point(MaxPos, MaxPos)}
\* the points of the window and one row and column around it
PointInputs == {Point(x, y) : x \in -1..(MaxDim + MaxPos + 1), y \in -1..(MaxDim + MaxPos + 1)}

----------------------------------------------------------------------------
(* State *)

NoFlags(sc) == \A f \in TrackerFlags : ~sc.changeTracker[f]

\* both scenes hold the same values and neither has anything to propagate
CleanEqual(sp) ==
    /\ Attrs(sp["a"]) = Attrs(sp["b"])
    /\ NoFlags(sp["a"])
    /\ NoFlags(sp["b"])

\* "last" is the latest call, "before" the scenes before it and "events" the
\* signals it emitted; "prev" is the call before that one and the scenes
\* before it.
\* "edited" is the set of scenes a setter was called on since the scenes were
\* last equal and clean; "?" when a sync ended with the scenes not so.
Unpaired == "?"

Constructed(tr) == [s \in Scenes |-> Q3DScene(s, tr)]

NoListeners == [s \in Scenes |-> NoListener]
NoSurface == "none"

InitObjects ==
    /\ parent = [o \in Cameras \cup Lights |->
                   IF o \in {"camA", "lightA"} THEN "a"
                   ELSE IF o \in {"camB", "lightB"} THEN "b" ELSE NoParent]
    /\ conns = [p \in Cameras \X Scenes |-> IF p[1] = InitialCamera(p[2]) THEN 1 ELSE 0]
    /\ deleted = [o \in Cameras \cup Lights |-> 0]
    /\ alive = [s \in Scenes |-> TRUE]
    /\ crashed = Running
    /\ surface = NoSurface

\* two scenes right after construction
Init ==
    \E tr \in BOOLEAN :
        /\ scene = Constructed(tr)
        /\ InitObjects
        /\ listeners = NoListeners
        /\ objDirty = {}
        /\ last = [op |-> "construct", s |-> "a", arg |-> tr]
        /\ before = Constructed(tr)
        /\ events = <<>>
        /\ edited = {Unpaired}
        /\ steps = MaxOps
        /\ prev = [call |-> [op |-> "construct", s |-> "b", arg |-> tr],
                    before |-> Constructed(tr)]

\* a graph after start-up: the application scene has been given its window,
\* viewport and slicing mode, and the first frame has synchronised the copy
InitStartup ==
    \E tr \in BOOLEAN, V \in ViewportInputs, sl \in BOOLEAN :
      \E c1 \in {setWindowSize(Ctx("a", Q3DScene("a", tr)),
                               Size(MaxDim + MaxPos, MaxDim + MaxPos))} :
        \E c2 \in {setViewport(c1, V)} :
          \E c3 \in {setSlicingActive(c2, sl)} :
            \E r \in {sync(c3.sc, Ctx("b", Q3DScene("b", tr)))} :
              \E sp \in {[s \in Scenes |-> IF s = "a" THEN r.src ELSE r.other.sc]} :
                /\ scene = sp
                /\ InitObjects
                /\ listeners = NoListeners
                /\ objDirty = r.dirtied
                /\ last = [op |-> "sync", s |-> "a", arg |-> "b"]
                /\ before = [s \in Scenes |-> IF s = "a" THEN c3.sc ELSE Q3DScene("b", tr)]
                /\ events = r.other.ev
                /\ edited = IF CleanEqual(sp) THEN {} ELSE {Unpaired}
                /\ steps = MaxStartupOps
                /\ prev = [call |-> [op |-> "construct", s |-> "b", arg |-> tr],
                            before |-> Constructed(tr)]

----------------------------------------------------------------------------
(* Calls *)

\* a call on scene s, with the slot the application has connected to it
Calling(s) == [Ctx(s, scene[s]) EXCEPT !.on = listeners[s]]

\* the effect of a setter call on scene s that ended in context c
Called(s, op, arg, c) ==
    /\ steps > 0
    /\ crashed = Running
    /\ alive[s]
    /\ UNCHANGED <<deleted, alive, crashed, listeners, surface>>
    /\ steps' = steps - 1
    /\ prev' = [call |-> last, before |-> before]
    /\ scene' = [scene EXCEPT ![s] = c.sc]
    /\ events' = c.ev
    /\ last' = [op |-> op, s |-> s, arg |-> arg]
    /\ before' = scene
    /\ edited' = IF CleanEqual([scene EXCEPT ![s] = c.sc]) THEN {}
                 ELSE edited \cup {s}

CallSetViewport(s) ==
    \E viewport \in ViewportInputs :
        /\ Called(s, "setViewport", viewport, setViewport(Calling(s), viewport))
        /\ UNCHANGED <<parent, conns, objDirty>>

CallSetViewportSize(s) ==
    \E size \in ViewportSizeInputs :
        /\ Called(s, "setViewportSize", size,
                  setViewportSize(Calling(s), size.w, size.h))
        /\ UNCHANGED <<parent, conns, objDirty>>

CallSetWindowSize(s) ==
    \E size \in WindowSizeInputs :
        /\ Called(s, "setWindowSize", size, setWindowSize(Calling(s), size))
        /\ UNCHANGED <<parent, conns, objDirty>>

CallSetPrimarySubViewport(s) ==
    \E rect \in SubViewportInputs :
        /\ Called(s, "setPrimarySubViewport", rect,
                  setPrimarySubViewport(Calling(s), rect))
        /\ UNCHANGED <<parent, conns, objDirty>>

CallSetSecondarySubViewport(s) ==
    \E rect \in SubViewportInputs :
        /\ Called(s, "setSecondarySubViewport", rect,
                  setSecondarySubViewport(Calling(s), rect))
        /\ UNCHANGED <<parent, conns, objDirty>>

CallSetSlicingActive(s) ==
    \E isSlicing \in BOOLEAN :
        /\ Called(s, "setSlicingActive", isSlicing,
                  setSlicingActive(Calling(s), isSlicing))
        /\ UNCHANGED <<parent, conns, objDirty>>

CallSetSecondarySubviewOnTop(s) ==
    \E isSecondaryOnTop \in BOOLEAN :
        /\ Called(s, "setSecondarySubviewOnTop", isSecondaryOnTop,
                  setSecondarySubviewOnTop(Calling(s), isSecondaryOnTop))
        /\ UNCHANGED <<parent, conns, objDirty>>

CallSetDevicePixelRatio(s) ==
    \E pixelRatio \in PixelRatioInputs :
        /\ Called(s, "setDevicePixelRatio", pixelRatio,
                  setDevicePixelRatio(Calling(s), pixelRatio))
        /\ UNCHANGED <<parent, conns, objDirty>>

CallSetSelectionQueryPosition(s) ==
    \E point \in SelectionInputs :
        /\ Called(s, "setSelectionQueryPosition", point,
                  setSelectionQueryPosition(Calling(s), point))
        /\ UNCHANGED <<parent, conns, objDirty>>

\* a call that did not return: the process stopped before any assignment
Failed(s, op, arg, how) ==
    /\ steps > 0
    /\ crashed = Running
    /\ alive[s]
    /\ steps' = steps - 1
    /\ prev' = [call |-> last, before |-> before]
    /\ last' = [op |-> op, s |-> s, arg |-> arg]
    /\ before' = scene
    /\ events' = <<>>
    /\ crashed' = how
    /\ UNCHANGED <<scene, edited, deleted, alive, listeners, surface>>

\* obj->setParent(s) when obj->parent() is another object
setParent(p, obj, s) == IF obj \in DOMAIN p THEN [p EXCEPT ![obj] = s] ELSE p

\* the connections that are left in place of the old camera's
connectCamera_noDisconnect(cn, s, old, camera) ==
    IF camera # old /\ camera # NoObject
    THEN [cn EXCEPT ![<<camera, s>>] = @ + 1]
    ELSE cn

\* disconnect(m_camera, ...) and connect(camera, ...) of setActiveCamera: cn
\* counts, for each camera and scene, the connections of the camera's
\* xRotationChanged, yRotationChanged and zoomLevelChanged to needRender
connectCamera(cn, s, old, camera) ==
    IF camera # old
    THEN LET off == IF old # NoObject THEN [cn EXCEPT ![<<old, s>>] = 0] ELSE cn
         IN  IF camera # NoObject THEN [off EXCEPT ![<<camera, s>>] = @ + 1] ELSE off
    ELSE cn

\* how a setActiveCamera call can end: the disconnect of a camera that was
\* deleted behind the scene's back reads freed memory
setActiveCameraOutcomes(s, camera) ==
    IF Q_ASSERT(camera) # {Running} THEN Q_ASSERT(camera)
    ELSE IF camera # scene[s].camera /\ deleted[scene[s].camera] > 0
         THEN {Running, Faulted}
         ELSE {Running}

CallSetActiveCamera(s) ==
    \E camera \in Cameras \cup {NoObject} :
        \E how \in setActiveCameraOutcomes(s, camera) :
            /\ camera \in Cameras => deleted[camera] = 0
            /\ IF how = Running
               THEN /\ Called(s, "setActiveCamera", camera,
                              setActiveCamera(Calling(s), camera))
                    /\ parent' = setParent(parent, camera, s)
                    /\ conns' = connectCamera(conns, s, scene[s].camera, camera)
                    /\ UNCHANGED objDirty
               ELSE /\ Failed(s, "setActiveCamera", camera, how)
                    /\ UNCHANGED <<parent, conns, objDirty>>

CallSetActiveLight(s) ==
    \E light \in Lights \cup {NoObject} :
        \E how \in Q_ASSERT(light) :
            /\ light \in Lights => deleted[light] = 0
            /\ IF how = Running
               THEN /\ Called(s, "setActiveLight", light,
                              setActiveLight(Calling(s), light))
                    /\ parent' = setParent(parent, light, s)
                    /\ UNCHANGED <<conns, objDirty>>
               ELSE /\ Failed(s, "setActiveLight", light, how)
                    /\ UNCHANGED <<parent, conns, objDirty>>

\* scene[s].sync(scene[o])
CallSync(s) ==
    LET o == OtherScene(s)
        r == sync(scene[s], Calling(o))
        sp == [scene EXCEPT ![s] = r.src, ![o] = r.other.sc]
    IN  /\ steps > 0
        /\ crashed = Running
        /\ alive[s] /\ alive[o]
        /\ UNCHANGED <<deleted, alive, crashed, listeners, surface>>
        /\ steps' = steps - 1
        /\ prev' = [call |-> last, before |-> before]
        /\ scene' = sp
        /\ events' = r.other.ev
        /\ objDirty' = objDirty \cup r.dirtied
        /\ last' = [op |-> "sync", s |-> s, arg |-> o]
        /\ before' = scene
        /\ edited' = IF CleanEqual(sp) THEN {} ELSE {Unpaired}
        /\ UNCHANGED <<parent, conns>>

SceneCalls(s) ==
    \/ CallSetSlicingActive(s)
    \/ CallSetPrimarySubViewport(s)
    \/ CallSetSecondarySubViewport(s)
    \/ CallSetViewport(s)
    \/ CallSetViewportSize(s)
    \/ CallSetWindowSize(s)
    \/ CallSetSecondarySubviewOnTop(s)
    \/ CallSetDevicePixelRatio(s)
    \/ CallSetSelectionQueryPosition(s)
    \/ CallSetActiveCamera(s)
    \/ CallSetActiveLight(s)

\* any call on either scene, and sync in either direction
Next == \E s \in Scenes : SceneCalls(s) \/ CallSync(s)

Spec == Init /\ [][Next]_vars

\* the application edits its scene "a"; each frame synchronises the copy "b"
NextStartup == SceneCalls("a") \/ CallSync("a")

SpecStartup == InitStartup /\ [][NextStartup]_vars

----------------------------------------------------------------------------
(* A slot that overrides the default subviewport layout *)

\* the rectangles the slot sets when viewportChanged or slicingActiveChanged
\* reaches it
ListenerInputs ==
    {[connected |-> TRUE, primary |-> Rect(1, 1, SmallDim, SmallDim),
      secondary |-> Rect(-1, -1, SmallDim, MaxDim)],
     [connected |-> TRUE, primary |-> Rect(-1, -1, SmallDim, MaxDim),
      secondary |-> Rect(MaxDim + 1, 0, 1, 1)]}

\* the application has connected the slot to its scene "a" after construction
InitListening ==
    \E tr \in BOOLEAN, slot \in ListenerInputs :
        /\ scene = Constructed(tr)
        /\ InitObjects
        /\ listeners = [s \in Scenes |-> IF s = "a" THEN slot ELSE NoListener]
        /\ objDirty = {}
        /\ last = [op |-> "construct", s |-> "a", arg |-> tr]
        /\ before = Constructed(tr)
        /\ events = <<>>
        /\ edited = {Unpaired}
        /\ steps = MaxListenerOps
        /\ prev = [call |-> [op |-> "construct", s |-> "b", arg |-> tr],
                    before |-> Constructed(tr)]

\* the calls that emit viewportChanged or slicingActiveChanged
NextListening ==
    \/ CallSetViewport("a")
    \/ CallSetViewportSize("a")
    \/ CallSetSlicingActive("a")
    \/ CallSetWindowSize("a")
    \/ CallSetDevicePixelRatio("a")

SpecListening == InitListening /\ [][NextListening]_vars

----------------------------------------------------------------------------
(* Lifetime of the cameras and lights *)

\* what delete obj leaves: the object is removed from its parent's children
\* and its connections are gone
Delete(st, objs) ==
    [deleted |-> [o \in DOMAIN st.deleted |->
                     IF o \in objs THEN st.deleted[o] + 1 ELSE st.deleted[o]],
     parent |-> [o \in DOMAIN st.parent |->
                     IF o \in objs THEN NoParent ELSE st.parent[o]]]

\* Q3DScene::~Q3DScene: the d-pointer's Q3DScenePrivate::~Q3DScenePrivate
\* deletes the active camera and light, then QObject::~QObject deletes the
\* children the scene still has.  Deleting an object a second time frees
\* freed memory: the process goes on or stops.
DestroyScene(s) ==
    LET active == {scene[s].camera, scene[s].light}
        d1 == Delete([deleted |-> deleted, parent |-> parent], active)
        children == {o \in DOMAIN parent : d1.parent[o] = s}
        d2 == Delete(d1, children)
    IN  /\ steps > 0
        /\ crashed = Running
        /\ alive[s]
        /\ steps' = steps - 1
        /\ alive' = [alive EXCEPT ![s] = FALSE]
        /\ deleted' = d2.deleted
        /\ parent' = d2.parent
        /\ conns' = [p \in DOMAIN conns |->
                       IF p[2] = s \/ d2.deleted[p[1]] > 0 THEN 0 ELSE conns[p]]
        /\ crashed' \in IF \E o \in active : deleted[o] > 0
                        THEN {Running, Faulted} ELSE {Running}
        /\ prev' = [call |-> last, before |-> before]
        /\ last' = [op |-> "destroy", s |-> s, arg |-> NoObject]
        /\ before' = scene
        /\ events' = <<>>
        /\ UNCHANGED <<scene, objDirty, edited, listeners, surface>>

\* the needRender signals one change of a camera's rotation or zoom level
\* makes scene s emit
needRender(camera, s) ==
    [i \in 1..conns[<<camera, s>>] |->
        [by |-> s, sig |-> "needRender", snap |-> Attrs(scene[s])]]

\* a camera emits xRotationChanged, yRotationChanged or zoomLevelChanged
xRotationChanged(camera) ==
    /\ steps > 0
    /\ crashed = Running
    /\ deleted[camera] = 0
    /\ steps' = steps - 1
    /\ events' = needRender(camera, "a") \o needRender(camera, "b")
    /\ prev' = [call |-> last, before |-> before]
    /\ last' = [op |-> "xRotationChanged", s |-> parent[camera], arg |-> camera]
    /\ before' = scene
    /\ UNCHANGED <<scene, parent, conns, objDirty, edited, deleted, alive, crashed,
                   listeners, surface>>

\* two scenes right after construction, for the calls that concern the
\* cameras and lights
InitLifetime ==
    \E tr \in BOOLEAN :
        /\ scene = Constructed(tr)
        /\ InitObjects
        /\ listeners = NoListeners
        /\ objDirty = {}
        /\ last = [op |-> "construct", s |-> "a", arg |-> tr]
        /\ before = Constructed(tr)
        /\ events = <<>>
        /\ edited = {Unpaired}
        /\ steps = MaxLifetimeOps
        /\ prev = [call |-> [op |-> "construct", s |-> "b", arg |-> tr],
                    before |-> Constructed(tr)]

\* the cameras and lights of two living scenes
NextCameras ==
    \/ \E s \in Scenes : CallSetActiveCamera(s)
    \/ \E s \in Scenes : CallSetActiveLight(s)
    \/ \E camera \in Cameras : xRotationChanged(camera)

SpecCameras == InitLifetime /\ [][NextCameras]_vars

\* the same with the scenes' destruction
NextLifetime ==
    \/ NextCameras
    \/ \E s \in Scenes : DestroyScene(s)

SpecLifetime == InitLifetime /\ [][NextLifetime]_vars

----------------------------------------------------------------------------
(* SurfaceObject (src/datavisualization/utils/surfaceobject_p.h): the mesh  *)
(* of a grid of height samples.  The header declares the operations; their  *)
(* bodies follow the description of the surface mesh builder.  Positions    *)
(* and normals are integer vectors; a normal is kept un-normalised.         *)

Vec(x, y, z) == [x |-> x, y |-> y, z |-> z]
VAdd(a, b) == Vec(a.x + b.x, a.y + b.y, a.z + b.z)
VSub(a, b) == Vec(a.x - b.x, a.y - b.y, a.z - b.z)
ZeroVector == Vec(0, 0, 0)
Cross(u, v) == Vec(u.y * v.z - u.z * v.y, u.z * v.x - u.x * v.z, u.x * v.y - u.y * v.x)

\* SurfaceObject::normal: the face normal of the triangle a, b, c
normal(a, b, c) == Cross(VSub(b, a), VSub(c, a))

Cell(column, row) == [column |-> column, row |-> row]

\* a QSurfaceDataArray of the given extents, filled with sample pattern k
DataArray(columns, rows, k) ==
    [columns |-> columns, rows |-> rows,
     y |-> [r \in 0..(rows - 1) |->
              [c \in 0..(columns - 1) |-> (k * (r + 1) + c) % (k + 1)]]]

GridColumns == {2, 3}
GridRows == {2, MaxRows}
DataInputs == {DataArray(c, r, k) : c \in GridColumns, r \in GridRows, k \in 0..MaxSample}

\* the position of a grid cell's vertex
Position(dataArray, cell) == Vec(cell.column, dataArray.y[cell.row][cell.column], cell.row)

\* smooth mesh: one vertex per grid cell, row by row
SmoothCells(columns, rows) ==
    [i \in 1..(columns * rows) |-> Cell((i - 1) % columns, (i - 1) \div columns)]

\* the corners of the two triangles of the quad at (x, y):
\* (x,y)-(x+1,y)-(x,y+1) and (x+1,y)-(x+1,y+1)-(x,y+1)
QuadCorners(x, y) ==
    <<Cell(x, y), Cell(x + 1, y), Cell(x, y + 1),
      Cell(x + 1, y), Cell(x + 1, y + 1), Cell(x, y + 1)>>

\* coarse mesh: a vertex of its own for every corner of every triangle
CoarseCells(columns, rows) ==
    [i \in 1..(6 * (columns - 1) * (rows - 1)) |->
        QuadCorners(((i - 1) \div 6) % (columns - 1),
                    ((i - 1) \div 6) \div (columns - 1))[((i - 1) % 6) + 1]]

Cells(mesh) ==
    IF mesh.surfaceType = "SurfaceSmooth" THEN SmoothCells(mesh.columns, mesh.rows)
    ELSE IF mesh.surfaceType = "SurfaceFlat" THEN CoarseCells(mesh.columns, mesh.rows)
    ELSE <<>>

\* what a triangle of the quad at (x, y) adds to the normal of the vertex of
\* cell v: its face normal if the quad is in the grid and v is a corner
FaceAt(vertices, columns, rows, x, y, first, v) ==
    LET corners == QuadCorners(x, y)
        a == corners[first]
        b == corners[first + 1]
        c == corners[first + 2]
        at(cell) == vertices[cell.row * columns + cell.column + 1]
    IN  IF x >= 0 /\ y >= 0 /\ x < columns - 1 /\ y < rows - 1 /\ v \in {a, b, c}
        THEN normal(at(a), at(b), at(c))
        ELSE ZeroVector

QuadAt(vertices, columns, rows, x, y, v) ==
    VAdd(FaceAt(vertices, columns, rows, x, y, 1, v),
         FaceAt(vertices, columns, rows, x, y, 4, v))

\* smooth normal: the sum of the normals of all faces around the vertex
SmoothNormal(vertices, columns, rows, v) ==
    VAdd(VAdd(QuadAt(vertices, columns, rows, v.column - 1, v.row - 1, v),
              QuadAt(vertices, columns, rows, v.column, v.row - 1, v)),
         VAdd(QuadAt(vertices, columns, rows, v.column - 1, v.row, v),
              QuadAt(vertices, columns, rows, v.column, v.row, v)))

\* coarse normal: the normal of the face the vertex at index i is a corner of
CoarseNormal(vertices, i) ==
    LET first == ((i - 1) \div 3) * 3 + 1
    IN  normal(vertices[first], vertices[first + 1], vertices[first + 2])

Normals(surfaceType, vertices, columns, rows, cells) ==
    [i \in DOMAIN vertices |->
        IF surfaceType = "SurfaceSmooth"
        THEN SmoothNormal(vertices, columns, rows, cells[i])
        ELSE CoarseNormal(vertices, i)]

\* SurfaceObject::SurfaceObject
SurfaceObject ==
    [surfaceType |-> "Undefined", columns |-> 0, rows |-> 0,
     vertices |-> <<>>, normals |-> <<>>]

\* the full rebuild of either kind
SetUp(surfaceType, cells, dataArray) ==
    LET vertices == [i \in DOMAIN cells |-> Position(dataArray, cells[i])]
    IN  [surfaceType |-> surfaceType,
         columns |-> dataArray.columns, rows |-> dataArray.rows,
         vertices |-> vertices,
         normals |-> Normals(surfaceType, vertices, dataArray.columns, dataArray.rows, cells)]

setUpSmoothData(dataArray) ==
    SetUp("SurfaceSmooth", SmoothCells(dataArray.columns, dataArray.rows), dataArray)

setUpData(dataArray) ==
    SetUp("SurfaceFlat", CoarseCells(dataArray.columns, dataArray.rows), dataArray)

\* the vertices of rows first..final taken from the data array, and the
\* normals of those vertices recomputed; the rest of both buffers kept
UpdateRows(mesh, dataArray, first, final) ==
    LET cells == Cells(mesh)
        vertices == [i \in DOMAIN cells |->
                        IF cells[i].row \in first..final
                        THEN Position(dataArray, cells[i])
                        ELSE mesh.vertices[i]]
        normals == Normals(mesh.surfaceType, vertices, mesh.columns, mesh.rows, cells)
    IN  [mesh EXCEPT !.vertices = vertices,
                     !.normals = [i \in DOMAIN cells |->
                                     IF cells[i].row \in first..final
                                     THEN normals[i]
                                     ELSE mesh.normals[i]]]

\* the row endRow updated as well
updateSmoothRows_inclusiveEnd(mesh, dataArray, startRow, endRow) ==
    UpdateRows(mesh, dataArray, startRow, endRow)

updateSmoothRows(mesh, dataArray, startRow, endRow) ==
    UpdateRows(mesh, dataArray, startRow, endRow - 1)

updateCoarseRows(mesh, dataArray, startRow, endRow) ==
    UpdateRows(mesh, dataArray, startRow, endRow - 1)

\* the buffer index of the first vertex stored for a cell
IndexOf(mesh, column, row) ==
    IF mesh.surfaceType = "SurfaceSmooth"
    THEN row * mesh.columns + column + 1
    ELSE LET x == IF column < mesh.columns - 1 THEN column ELSE column - 1
             y == IF row < mesh.rows - 1 THEN row ELSE row - 1
             corner == IF column = x /\ row = y THEN 1
                       ELSE IF row = y THEN 2
                       ELSE IF column = x THEN 3 ELSE 5
         IN  6 * (y * (mesh.columns - 1) + x) + corner

OutOfRange == [error |-> "out-of-range", vertex |-> ZeroVector]

\* only the buffer index checked against the buffer size
vertexAt_indexOnly(mesh, column, row) ==
    IF IndexOf(mesh, column, row) \in DOMAIN mesh.vertices
    THEN [error |-> "none", vertex |-> mesh.vertices[IndexOf(mesh, column, row)]]
    ELSE OutOfRange

vertexAt(mesh, column, row) ==
    IF column >= 0 /\ column < mesh.columns /\ row >= 0 /\ row < mesh.rows
    THEN [error |-> "none", vertex |-> mesh.vertices[IndexOf(mesh, column, row)]]
    ELSE OutOfRange

\* the row ranges [startRow, endRow) tried on a grid: all of it, an inner
\* range, an empty range and the last row
RowRanges(rows) ==
    {rg \in {[startRow |-> 0, endRow |-> rows],
             [startRow |-> 2, endRow |-> rows - 1],
             [startRow |-> 1, endRow |-> 1],
             [startRow |-> rows - 1, endRow |-> rows]} :
        rg.startRow <= rg.endRow}

SurfaceTypes == {"SurfaceSmooth", "SurfaceFlat"}

\* a surface object that has been given its first data array
InitSurface ==
    \E dataArray \in DataInputs, surfaceType \in SurfaceTypes :
        /\ surface = [obj |-> IF surfaceType = "SurfaceSmooth"
                              THEN setUpSmoothData(dataArray)
                              ELSE setUpData(dataArray),
                      before |-> SurfaceObject,
                      call |-> [op |-> IF surfaceType = "SurfaceSmooth"
                                       THEN "setUpSmoothData" ELSE "setUpData",
                                column |-> 0, row |-> 0, startRow |-> 0, endRow |-> 0],
                      result |-> OutOfRange]
        /\ scene = Constructed(FALSE)
        /\ parent = [o \in Cameras \cup Lights |-> NoParent]
        /\ conns = [p \in Cameras \X Scenes |-> 0]
        /\ deleted = [o \in Cameras \cup Lights |-> 0]
        /\ alive = [s \in Scenes |-> TRUE]
        /\ crashed = Running
        /\ listeners = NoListeners
        /\ objDirty = {}
        /\ last = [op |-> "construct", s |-> "a", arg |-> FALSE]
        /\ before = Constructed(FALSE)
        /\ events = <<>>
        /\ edited = {Unpaired}
        /\ steps = MaxSurfaceOps
        /\ prev = [call |-> [op |-> "construct", s |-> "b", arg |-> FALSE],
                    before |-> Constructed(FALSE)]

SurfaceCalled(op, column, row, startRow, endRow, mesh, result) ==
    /\ steps > 0
    /\ steps' = steps - 1
    /\ surface' = [obj |-> mesh, before |-> surface.obj,
                   call |-> [op |-> op, column |-> column, row |-> row,
                             startRow |-> startRow, endRow |-> endRow],
                   result |-> result]
    /\ UNCHANGED <<scene, parent, conns, objDirty, last, before, events, edited,
                   prev, deleted, alive, crashed, listeners>>

\* the data arrays of the extents of the mesh
SameExtents(mesh) ==
    {d \in DataInputs : d.columns = mesh.columns /\ d.rows = mesh.rows}

CallUpdateSmoothRows ==
    /\ surface.obj.surfaceType = "SurfaceSmooth"
    /\ \E dataArray \in SameExtents(surface.obj), rg \in RowRanges(surface.obj.rows) :
          SurfaceCalled("updateSmoothRows", 0, 0, rg.startRow, rg.endRow,
                        updateSmoothRows(surface.obj, dataArray, rg.startRow, rg.endRow),
                        surface.result)

CallUpdateCoarseRows ==
    /\ surface.obj.surfaceType = "SurfaceFlat"
    /\ \E dataArray \in SameExtents(surface.obj), rg \in RowRanges(surface.obj.rows) :
          SurfaceCalled("updateCoarseRows", 0, 0, rg.startRow, rg.endRow,
                        updateCoarseRows(surface.obj, dataArray, rg.startRow, rg.endRow),
                        surface.result)

ColumnInputs == {-1, 0, 1, 2, 3}
RowInputs == {-1, 0, 1, MaxRows - 1, MaxRows}

CallVertexAt ==
    \E column \in ColumnInputs, row \in RowInputs :
        SurfaceCalled("vertexAt", column, row, 0, 0, surface.obj,
                      vertexAt(surface.obj, column, row))

NextSurface ==
    \/ CallUpdateSmoothRows
    \/ CallUpdateCoarseRows
    \/ CallVertexAt

SpecSurface == InitSurface /\ [][NextSurface]_vars

----------------------------------------------------------------------------
(* Properties *)

IsCall(op) == last.op = op
Repeated == prev.call.op = last.op /\ prev.call.s = last.s /\ prev.call.arg = last.arg

\* C1: when the scenes were equal and clean and only the source had setter
\* calls since, source.sync(target) leaves the target's window size,
\* viewport, subviewports, slicing flag, ordering flag, pixel ratio and
\* selection query position equal to the source's.
C1_SyncMakesTargetEqual ==
    [][(last'.op = "sync" /\ steps' # steps /\ edited \subseteq {last'.s})
         => Attrs(scene'[last'.arg]) = Attrs(scene'[last'.s])]_vars

\* the attribute each change-tracker flag stands for
FlagOf == [windowSize |-> "windowSizeChanged",
           viewport |-> "viewportChanged",
           primarySubViewport |-> "primarySubViewportChanged",
           secondarySubViewport |-> "secondarySubViewportChanged",
           isSlicingActive |-> "slicingActivatedChanged",
           isSecondarySubviewOnTop |-> "subViewportOrderChanged",
           devicePixelRatio |-> "devicePixelRatioChanged",
           selectionQueryPosition |-> "selectionQueryPositionChanged"]

\* the flagged attributes of the source that the last sync changed on the target
Batch == {f \in DOMAIN FlagOf :
            /\ before[last.s].changeTracker[FlagOf[f]]
            /\ Attrs(before[last.arg])[f] # Attrs(scene[last.arg])[f]}

\* a reading of the target with some of the batch applied and some not
Torn(snap) ==
    \E f \in Batch, g \in Batch :
        /\ snap[f] # Attrs(before[last.arg])[f]
        /\ snap[g] = Attrs(before[last.arg])[g]

\* C2: no handler of a notification the target emits during sync reads the
\* target with part of the flagged attributes updated and part still at
\* their values from before the sync.
C2_NoTornObservation ==
    IsCall("sync") => \A i \in 1..Len(events) : ~Torn(events[i].snap)

\* C3: when sync returns, every change-tracker flag is false on the source
\* and on the target.
C3_SyncClearsAllFlags ==
    IsCall("sync") => NoFlags(scene[last.s]) /\ NoFlags(scene[last.arg])

\* C4: a second source.sync(target) right after the first, with no call in
\* between, changes nothing on either scene and emits no notification.
C4_SecondSyncIsNoOp ==
    (IsCall("sync") /\ Repeated) => (scene = before /\ events = <<>>)

\* the repeated sync follows one that did change the target
C4_Witness ==
    /\ IsCall("sync") /\ Repeated
    /\ Attrs(prev.before[last.arg]) # Attrs(before[last.arg])

\* everything of a scene but its change tracker and scene-dirty marker
SourceFrame(sc) == [f \in (DOMAIN sc) \ {"changeTracker", "sceneDirty"} |-> sc[f]]

\* C5: sync leaves every attribute, derived GL rectangle and camera/light
\* reference of the source as it was; only the source's dirty flags and
\* scene-dirty marker change.
C5_SyncLeavesSource ==
    IsCall("sync") => SourceFrame(scene[last.s]) = SourceFrame(before[last.s])

\* a sync that copied something and cleared flags of the source
C5_Witness ==
    /\ IsCall("sync")
    /\ prev.call.op # "construct"
    /\ Attrs(before[last.arg]) # Attrs(scene[last.arg])
    /\ before[last.s].changeTracker # scene[last.s].changeTracker

\* the pixels a rectangle of non-negative extent covers
Pixels(r) == {<<i, j>> \in (r.x .. (r.x + r.w - 1)) \X (r.y .. (r.y + r.h - 1)) : TRUE}

ClipBox(sc) == Rect(0, 0, sc.viewport.w, sc.viewport.h)

\* C6: after setPrimarySubViewport(R) the primary subviewport covers exactly
\* the pixels of R inside (0,0,viewport.width,viewport.height), and after
\* setSecondarySubViewport(R) the secondary subviewport does.
C6_SubViewportIsIntersection ==
    /\ IsCall("setPrimarySubViewport") =>
          Pixels(scene[last.s].primarySubViewport)
              = Pixels(last.arg) \cap Pixels(ClipBox(scene[last.s]))
    /\ IsCall("setSecondarySubViewport") =>
          Pixels(scene[last.s].secondarySubViewport)
              = Pixels(last.arg) \cap Pixels(ClipBox(scene[last.s]))

\* a rectangle reaching outside the viewport box was cut down to a non-empty part
C6_Witness ==
    /\ IsCall("setPrimarySubViewport")
    /\ scene[last.s].primarySubViewport # last.arg
    /\ Pixels(scene[last.s].primarySubViewport) # {}
    /\ last.arg.x < 0

Contained(r, sc) ==
    \/ r.w <= 0
    \/ r.h <= 0
    \/ /\ r.x >= 0 /\ r.y >= 0
       /\ r.x + r.w <= sc.viewport.w
       /\ r.y + r.h <= sc.viewport.h

\* C7: in every state both subviewports of both scenes are empty or lie
\* inside (0,0,viewport.width,viewport.height) of the current viewport.
C7_SubViewportsInsideViewport ==
    \A s \in Scenes :
        /\ Contained(scene[s].primarySubViewport, scene[s])
        /\ Contained(scene[s].secondarySubViewport, scene[s])

\* the viewport was made narrower than the primary subviewport it had
C7_Witness ==
    /\ IsCall("setViewportSize")
    /\ scene[last.s].viewport.w > 0
    /\ before[last.s].primarySubViewport.w > scene[last.s].viewport.w

\* the default layout as the setters store it: a rectangle with no pixels
\* is stored as the null rectangle
FullOrNull(w, h) == IF w > 0 /\ h > 0 THEN Rect(0, 0, w, h) ELSE NullRect
DefaultPrimary(v, slicing) ==
    IF slicing THEN FullOrNull(v.w \div 5, v.h \div 5) ELSE FullOrNull(v.w, v.h)
DefaultSecondary(v, slicing) ==
    IF slicing THEN FullOrNull(v.w, v.h) ELSE NullRect

SlicingSwitched ==
    IsCall("setSlicingActive") /\ before[last.s].isSlicingActive # last.arg

\* C8 as stated: switching slicing on leaves primary = (0,0,floor(0.2w),
\* floor(0.2h)) and secondary = (0,0,w,h); switching it off leaves primary =
\* (0,0,w,h) and secondary = (0,0,0,0).
C8_SlicingLayoutAsStated ==
    SlicingSwitched =>
        LET v == scene[last.s].viewport
        IN  IF last.arg
            THEN /\ scene[last.s].primarySubViewport = Rect(0, 0, v.w \div 5, v.h \div 5)
                 /\ scene[last.s].secondarySubViewport = Rect(0, 0, v.w, v.h)
            ELSE /\ scene[last.s].primarySubViewport = Rect(0, 0, v.w, v.h)
                 /\ scene[last.s].secondarySubViewport = NullRect

\* C8 amended: the same rectangles whenever they have pixels, and the null
\* rectangle (0,0,0,0) in place of any of them that has a zero width or height.
C8_SlicingLayoutClipped ==
    SlicingSwitched =>
        /\ scene[last.s].primarySubViewport
              = DefaultPrimary(scene[last.s].viewport, last.arg)
        /\ scene[last.s].secondarySubViewport
              = DefaultSecondary(scene[last.s].viewport, last.arg)

\* slicing was switched on in a viewport large enough for a 20% primary view
C8_Witness ==
    /\ SlicingSwitched /\ last.arg
    /\ scene[last.s].primarySubViewport = Rect(0, 0, MaxDim \div 5, MaxDim \div 5)
    /\ scene[last.s].secondarySubViewport = Rect(0, 0, MaxDim, MaxDim)

\* setSlicingActive(false) that left slicing mode, then setSlicingActive(true)
SlicingRoundTrip ==
    /\ IsCall("setSlicingActive") /\ last.arg
    /\ prev.call.op = "setSlicingActive" /\ prev.call.s = last.s /\ ~prev.call.arg
    /\ prev.before[last.s].isSlicingActive

\* C9 as stated: the round trip returns both subviewports to the values
\* they had before the two calls.
C9_RoundTripAsStated ==
    SlicingRoundTrip =>
        /\ scene[last.s].primarySubViewport = prev.before[last.s].primarySubViewport
        /\ scene[last.s].secondarySubViewport = prev.before[last.s].secondarySubViewport

HadDefaultLayout(sc) ==
    /\ sc.primarySubViewport = DefaultPrimary(sc.viewport, sc.isSlicingActive)
    /\ sc.secondarySubViewport = DefaultSecondary(sc.viewport, sc.isSlicingActive)

\* C9 amended: the round trip leaves the default slicing layout of the
\* viewport, which is the layout from before the two calls when that was
\* the default layout.
C9_RoundTripRestoresDefault ==
    SlicingRoundTrip =>
        /\ HadDefaultLayout(scene[last.s])
        /\ HadDefaultLayout(prev.before[last.s]) =>
              /\ scene[last.s].primarySubViewport
                    = prev.before[last.s].primarySubViewport
              /\ scene[last.s].secondarySubViewport
                    = prev.before[last.s].secondarySubViewport

\* a round trip from the default slicing layout with a non-empty primary view
C9_Witness ==
    /\ SlicingRoundTrip
    /\ HadDefaultLayout(prev.before[last.s])
    /\ prev.before[last.s].primarySubViewport # NullRect

Signals == {events[i].sig : i \in 1..Len(events)}

\* C10: setViewport(rect) with a new rect stores it, resets both
\* subviewports to the default layout of the slicing mode for the new
\* viewport and emits needRender; with the current rect it changes nothing
\* and emits nothing.
C10_SetViewport ==
    IsCall("setViewport") =>
        IF before[last.s].viewport # last.arg
        THEN /\ scene[last.s].viewport = last.arg
             /\ scene[last.s].primarySubViewport
                   = DefaultPrimary(last.arg, scene[last.s].isSlicingActive)
             /\ scene[last.s].secondarySubViewport
                   = DefaultSecondary(last.arg, scene[last.s].isSlicingActive)
             /\ "needRender" \in Signals
        ELSE scene = before /\ events = <<>>

\* a new viewport replaced a subviewport set by the caller
C10_Witness ==
    /\ IsCall("setViewport")
    /\ before[last.s].viewport # last.arg
    /\ ~HadDefaultLayout(before[last.s])
    /\ scene[last.s].primarySubViewport # NullRect

\* the GL rectangle of a rectangle R in window coordinates, for window
\* height H and pixel ratio P
GLRect(R, H, P) == Rect(R.x * P, (H - (R.y + R.h)) * P, R.w * P, R.h * P)

\* a subviewport translated by the viewport origin
InWindow(S, V) == Rect(S.x + V.x, S.y + V.y, S.w, S.h)

\* C11: in every state the GL viewport is the GL rectangle of the viewport,
\* and each GL subviewport is the GL rectangle of its subviewport translated
\* by the viewport origin, for the window height and the pixel ratio.
C11_GLRectsAsStated ==
    \A s \in Scenes :
        LET sc == scene[s]
            H == sc.windowSize.h
            P == sc.devicePixelRatio
        IN  /\ sc.glViewport = GLRect(sc.viewport, H, P)
            /\ sc.glPrimarySubViewport
                  = GLRect(InWindow(sc.primarySubViewport, sc.viewport), H, P)
            /\ sc.glSecondarySubViewport
                  = GLRect(InWindow(sc.secondarySubViewport, sc.viewport), H, P)

\* what updateGLViewport would store in the scene
Recomputed(sc) == updateGLViewport(Ctx("a", sc)).sc

UpToDate(sc) ==
    /\ sc.glViewport = Recomputed(sc).glViewport
    /\ sc.glPrimarySubViewport = Recomputed(sc).glPrimarySubViewport
    /\ sc.glSecondarySubViewport = Recomputed(sc).glSecondarySubViewport

GLCalls == {"setViewport", "setViewportSize", "setWindowSize", "setDevicePixelRatio",
            "setPrimarySubViewport", "setSecondarySubViewport", "setSlicingActive"}

\* C12 as stated: after every call of one of the setters above, and for both
\* scenes after every sync, the three GL rectangles are what a recomputation
\* from the current values would store.
C12_NeverStaleAsStated ==
    /\ last.op \in GLCalls => UpToDate(scene[last.s])
    /\ IsCall("sync") => UpToDate(scene[last.s]) /\ UpToDate(scene[last.arg])

\* the call changed one of the values the GL viewport is computed from, or
\* the slicing mode
ChangedGLInput(old, new) ==
    \/ old.windowSize # new.windowSize
    \/ old.viewport # new.viewport
    \/ old.devicePixelRatio # new.devicePixelRatio
    \/ old.isSlicingActive # new.isSlicingActive

\* C12 amended: a call that changes the window size, the viewport, the
\* pixel ratio or the slicing mode of a scene leaves its GL rectangles up to
\* date, and once they are up to date every later call leaves them so.
C12_NeverStaleOnceComputed ==
    \A s \in Scenes :
        (UpToDate(before[s]) \/ ChangedGLInput(before[s], scene[s]))
            => UpToDate(scene[s])

\* a pixel ratio change rescaled the GL rectangles of a viewport that was set
C12_Witness ==
    /\ IsCall("setDevicePixelRatio")
    /\ scene[last.s].glViewport # before[last.s].glViewport
    /\ scene[last.s].glPrimarySubViewport.w = MaxRatio * MaxDim

\* strictly inside the subviewport S translated by the origin of viewport V
StrictlyInside(p, S, V) ==
    /\ V.x + S.x < p.x /\ p.x < V.x + S.x + S.w
    /\ V.y + S.y < p.y /\ p.y < V.y + S.y + S.h

\* C13: for every point, isPointInPrimarySubView is true exactly when the
\* point lies strictly inside the primary subviewport translated by the
\* viewport origin, and isPointInSecondarySubView exactly when it lies
\* strictly inside the translated secondary subviewport.
C13_PointInSubViewIsStrictInside ==
    \A s \in Scenes, p \in PointInputs :
        /\ isPointInPrimarySubView(scene[s], p)
              <=> StrictlyInside(p, scene[s].primarySubViewport, scene[s].viewport)
        /\ isPointInSecondarySubView(scene[s], p)
              <=> StrictlyInside(p, scene[s].secondarySubViewport, scene[s].viewport)

\* C14: when a scene's primary and secondary subviewports share no pixel, no
\* point is reported inside both.
C14_NoPointInBothSubViews ==
    \A s \in Scenes :
        Pixels(scene[s].primarySubViewport) \cap Pixels(scene[s].secondarySubViewport) = {}
            => \A p \in PointInputs :
                  ~(isPointInPrimarySubView(scene[s], p)
                       /\ isPointInSecondarySubView(scene[s], p))

\* C15: a scene's selection query position is the invalid point after
\* construction, and only a setSelectionQueryPosition call on the scene or a
\* sync with the scene as target changes it.
C15_SelectionNotAutoCleared ==
    /\ IsCall("construct") =>
          \A s \in Scenes : scene[s].selectionQueryPosition = invalidSelectionPoint
    /\ \A s \in Scenes :
          scene[s].selectionQueryPosition # before[s].selectionQueryPosition
              => \/ IsCall("setSelectionQueryPosition") /\ last.s = s
                 \/ IsCall("sync") /\ last.arg = s

\* a sync handed a pending request to the target and left it pending on the source
C15_Witness ==
    /\ IsCall("sync")
    /\ scene[last.arg].selectionQueryPosition # before[last.arg].selectionQueryPosition
    /\ scene[last.s].selectionQueryPosition = Point(MaxPos, MaxPos)

SetterCalls == {"setViewport", "setViewportSize", "setWindowSize",
                "setPrimarySubViewport", "setSecondarySubViewport", "setSlicingActive",
                "setSecondarySubviewOnTop", "setDevicePixelRatio",
                "setSelectionQueryPosition", "setActiveCamera", "setActiveLight"}

\* the change-tracker flag of each attribute, camera and light included
FlagOfAll == [windowSize |-> "windowSizeChanged",
              viewport |-> "viewportChanged",
              primarySubViewport |-> "primarySubViewportChanged",
              secondarySubViewport |-> "secondarySubViewportChanged",
              isSlicingActive |-> "slicingActivatedChanged",
              isSecondarySubviewOnTop |-> "subViewportOrderChanged",
              devicePixelRatio |-> "devicePixelRatioChanged",
              selectionQueryPosition |-> "selectionQueryPositionChanged",
              camera |-> "cameraChanged",
              light |-> "lightChanged"]

\* every attribute the last setter call changed has its flag set
ChangeIsFlagged ==
    last.op \in SetterCalls =>
        \A f \in DOMAIN FlagOfAll :
            before[last.s][f] # scene[last.s][f]
                => scene[last.s].changeTracker[FlagOfAll[f]]

\* C16 as stated: a setter call that changes an attribute leaves the
\* attribute's flag set, and a set flag is cleared only by a sync in which
\* the scene is the source.
C16_FlagSetUntilSyncAsSource ==
    /\ ChangeIsFlagged
    /\ \A s \in Scenes, f \in TrackerFlags :
          (before[s].changeTracker[f] /\ ~scene[s].changeTracker[f])
              => IsCall("sync") /\ last.s = s

\* C16 amended: a set flag is cleared only by a sync whose source has that
\* flag set, on the source and on the target alike.
C16_FlagSetUntilSyncHandlesIt ==
    /\ ChangeIsFlagged
    /\ \A s \in Scenes, f \in TrackerFlags :
          (before[s].changeTracker[f] /\ ~scene[s].changeTracker[f])
              => /\ IsCall("sync")
                 /\ s \in {last.s, last.arg}
                 /\ before[last.s].changeTracker[f]

\* a viewport change set a flag that was clear
C16_Witness ==
    /\ IsCall("setViewportSize")
    /\ before[last.s].viewport # scene[last.s].viewport
    /\ ~before[last.s].changeTracker["viewportChanged"]
    /\ scene[last.s].changeTracker["viewportChanged"]

\* C17: a setter called again with the same argument right after the first
\* call changes no attribute, GL rectangle or flag and emits no signal.
C17_SettersIdempotent ==
    (Repeated /\ last.op \in SetterCalls) => (scene = before /\ events = <<>>)

\* the first of the two calls stored a clipped rectangle
C17_Witness ==
    /\ Repeated /\ IsCall("setPrimarySubViewport")
    /\ prev.before[last.s].primarySubViewport # before[last.s].primarySubViewport
    /\ before[last.s].primarySubViewport # last.arg

ObjectCalls == {"setActiveCamera", "setActiveLight"}

\* C18: setActiveCamera(null) and setActiveLight(null) stop the program
\* without changing a scene, and in every state each scene's active camera
\* and active light are non-null.
C18_NullRejected ==
    /\ (last.op \in ObjectCalls /\ last.arg = NoObject)
          => (crashed \in {Aborted, Faulted} /\ scene = before)
    /\ \A s \in Scenes : scene[s].camera # NoObject /\ scene[s].light # NoObject

\* a null camera was passed to a scene whose camera had been replaced before
C18_Witness ==
    /\ IsCall("setActiveCamera") /\ last.arg = NoObject
    /\ crashed = Aborted
    /\ scene[last.s].camera = "cam1"

\* the needRender signals of scene s among the signals of the last step
RenderRequests(s) ==
    Cardinality({i \in 1..Len(events) : events[i].by = s /\ events[i].sig = "needRender"})

\* C19: for every scene, the active camera's change signals are connected
\* to the scene's needRender exactly once and no other camera's are: a
\* change of the active camera makes the scene emit needRender once, a
\* change of any other camera not at all.
C19_OnlyActiveCameraConnected ==
    /\ \A s \in Scenes, camera \in Cameras :
          conns[<<camera, s>>] = IF scene[s].camera = camera THEN 1 ELSE 0
    /\ IsCall("xRotationChanged") =>
          \A s \in Scenes :
              RenderRequests(s) = IF scene[s].camera = last.arg THEN 1 ELSE 0

\* the camera that changed was replaced and then made active again
C19_Witness ==
    /\ IsCall("xRotationChanged") /\ last.arg = "camA"
    /\ RenderRequests("a") = 1
    /\ prev.call.op = "setActiveCamera" /\ prev.call.s = "a" /\ prev.call.arg = "camA"
    /\ prev.before["a"].camera = "cam1"

\* C20: no camera or light is destroyed while both scenes live, a newly
\* assigned object is a child of the scene it was assigned to, no object is
\* ever destroyed twice, and when both scenes are gone every object they
\* were constructed with has been destroyed once.
C20_DestroyedExactlyOnce ==
    /\ (\A s \in Scenes : alive[s]) => \A o \in DOMAIN deleted : deleted[o] = 0
    /\ (last.op \in ObjectCalls /\ crashed = Running) => parent[last.arg] = last.s
    /\ \A o \in DOMAIN deleted : deleted[o] <= 1
    /\ (\A s \in Scenes : ~alive[s]) =>
          \A s \in Scenes : deleted[InitialCamera(s)] = 1 /\ deleted[InitialLight(s)] = 1

\* a call that changed the viewport or the slicing mode of a scene with a
\* connected slot
Overridden ==
    /\ last.op \in {"setViewport", "setViewportSize", "setSlicingActive"}
    /\ listeners[last.s].connected
    /\ Signals \cap {"viewportChanged", "slicingActiveChanged"} # {}

\* C23: when setViewport, setViewportSize or setSlicingActive returns after
\* a slot of viewportChanged or slicingActiveChanged has set both
\* subviewports, the stored subviewports are the slot's rectangles clipped
\* to the viewport, not the default layout.
C23_ListenerOverrideWins ==
    Overridden =>
        /\ scene[last.s].primarySubViewport
              = intersected(listeners[last.s].primary, ClipBox(scene[last.s]))
        /\ scene[last.s].secondarySubViewport
              = intersected(listeners[last.s].secondary, ClipBox(scene[last.s]))

\* slicing was switched on and the slot's rectangles replaced the default ones
C23_Witness ==
    /\ Overridden /\ IsCall("setSlicingActive") /\ last.arg
    /\ scene[last.s].primarySubViewport = Rect(1, 1, SmallDim, SmallDim)
    /\ scene[last.s].primarySubViewport
          # DefaultPrimary(scene[last.s].viewport, TRUE)
    /\ scene[last.s].secondarySubViewport
          # DefaultSecondary(scene[last.s].viewport, TRUE)

\* C24: in every state of every scene, a set change-tracker flag comes with
\* a true scene-dirty marker.
C24_FlagImpliesSceneDirty ==
    \A s \in Scenes : ~NoFlags(scene[s]) => scene[s].sceneDirty

\* the last setter call changed one of the scene's attributes
ChangedAttribute ==
    /\ last.op \in SetterCalls
    /\ \E f \in DOMAIN FlagOfAll : before[last.s][f] # scene[last.s][f]

\* C25: every setter call that changes an attribute of the scene emits
\* needRender at least once.
C25_EveryChangeRequestsRender ==
    ChangedAttribute => "needRender" \in Signals

\* the objects a sync from source src marks dirty
DirtiedBy(src) ==
    (IF src.changeTracker["cameraChanged"] THEN {src.camera} ELSE {})
        \cup (IF src.changeTracker["lightChanged"] THEN {src.light} ELSE {})

\* C26: sync leaves the target's active camera and light the objects they
\* were, and marks dirty only the source's own camera and light, each when
\* its flag is set on the source.
C26_SyncKeepsTargetObjects ==
    [][(last'.op = "sync" /\ steps' # steps)
         => /\ scene'[last'.arg].camera = scene[last'.arg].camera
            /\ scene'[last'.arg].light = scene[last'.arg].light
            /\ objDirty' = objDirty \cup DirtiedBy(scene[last'.s])]_vars

\* the source's replaced camera was marked dirty and the target kept its own
C26_Witness ==
    /\ IsCall("sync")
    /\ before[last.s].changeTracker["cameraChanged"]
    /\ scene[last.s].camera = "cam1"
    /\ "cam1" \in objDirty
    /\ scene[last.arg].camera = InitialCamera(last.arg)

Empty(r) == r.w = 0 \/ r.h = 0

\* C27: while a subviewport has width 0 or height 0, its isPointIn...SubView
\* test is false for every point.
C27_EmptySubViewTakesNoPoint ==
    \A s \in Scenes, p \in PointInputs :
        /\ Empty(scene[s].primarySubViewport) => ~isPointInPrimarySubView(scene[s], p)
        /\ Empty(scene[s].secondarySubViewport) => ~isPointInSecondarySubView(scene[s], p)

\* the buffer indices of the vertices of the rows outside [startRow, endRow)
OutsideRange(mesh, startRow, endRow) ==
    {i \in DOMAIN mesh.vertices : Cells(mesh)[i].row \notin startRow..(endRow - 1)}

RowsUpdated == surface.call.op \in {"updateSmoothRows", "updateCoarseRows"}

\* C21: updateSmoothRows and updateCoarseRows over [startRow, endRow) leave
\* every stored vertex, and its normal, of a row outside the range identical
\* to what it was before the call
C21_UpdateRowsKeepsOtherRows ==
    RowsUpdated =>
        /\ DOMAIN surface.obj.vertices = DOMAIN surface.before.vertices
        /\ \A i \in OutsideRange(surface.before, surface.call.startRow, surface.call.endRow) :
              /\ surface.obj.vertices[i] = surface.before.vertices[i]
              /\ surface.obj.normals[i] = surface.before.normals[i]

\* an update of an inner row range that moved a vertex of the range, on a
\* grid with rows before and after the range
C21_Witness ==
    /\ RowsUpdated
    /\ surface.call.startRow > 0
    /\ surface.call.endRow - surface.call.startRow >= 2
    /\ surface.call.endRow < surface.obj.rows
    /\ \E i \in DOMAIN surface.obj.vertices :
          surface.obj.vertices[i] # surface.before.vertices[i]

InExtents(mesh, column, row) ==
    column >= 0 /\ column < mesh.columns /\ row >= 0 /\ row < mesh.rows

\* C22: vertexAt(column, row) returns the position stored for that grid cell
\* when the cell is inside the grid extents, and an out-of-range error, not a
\* position, when the column or the row is outside them
C22_VertexAtChecksExtents ==
    surface.call.op = "vertexAt" =>
        IF InExtents(surface.obj, surface.call.column, surface.call.row)
        THEN /\ surface.result.error = "none"
             /\ \E i \in DOMAIN surface.obj.vertices :
                   /\ Cells(surface.obj)[i] = Cell(surface.call.column, surface.call.row)
                   /\ surface.result.vertex = surface.obj.vertices[i]
             /\ surface.result.vertex.x = surface.call.column
             /\ surface.result.vertex.z = surface.call.row
             /\ surface.obj = surface.before
        ELSE /\ surface.result = OutOfRange
             /\ surface.obj = surface.before

\* a column past the last one, in a row that is not the last, is refused
C22_Witness ==
    /\ surface.call.op = "vertexAt"
    /\ surface.call.column = surface.obj.columns
    /\ surface.call.row >= 0
    /\ surface.call.row < surface.obj.rows - 1
    /\ surface.result = OutOfRange

====
